---- MODULE Spec2Model ----
(***************************************************************************)
(* Model of components/adaptive_lightning/adaptive_lightning.cpp:          *)
(* the colour-temperature curve (smooth_transition,                        *)
(* calc_color_temperature) and the AdaptiveLightningComponent state        *)
(* machine (update, write_state, handle_light_state_change,                *)
(* handle_target_state_reached).                                           *)
(*                                                                         *)
(* Units.  Colour temperatures are integers in hundredths of a mired, so   *)
(* 153.0 mireds is 15300 and the 0.1 dead-band is 10.  Timestamps are      *)
(* integers in an arbitrary unit; the curve only uses their ratio.         *)
(* Arithmetic is exact decimal arithmetic: the single-precision rounding   *)
(* of the C++ floats (about 3e-5 mired at 500 mireds) is not represented.  *)
(***************************************************************************)
EXTENDS Integers, Sequences, FiniteSets, TLC

VARIABLES
  light_,                     \* light_ != nullptr
  sun_,                       \* sun_ != nullptr
  restore_mode,               \* switch restore mode
  min_mireds_, max_mireds_,   \* configured range, after setup()
  transition_length_,         \* configured transition length
  state,                      \* switch state: automatic updates enabled
  last_requested_color_temp_, \* 0 = none requested
  previous_light_state_,      \* light on/off seen by the last notification
  remote_values,              \* the light's is_on, color_temperature, brightness
  pending_values,             \* the light changed and has not notified yet
  now,                        \* sun_->get_time()->now()
  sun_times,                  \* <<sunrise, sunset>> of today, <<>> if unknown
  event,                      \* entry point that ran last
  calls,                      \* light calls performed by the last entry point
  taken,                      \* branches the callbacks took in it, see Take
  scenario,                   \* progress of an automatic re-enable, see Commit
  awaiting_reached,           \* enabled with the light on, target not yet reached
  external_choice,            \* whose colour the light shows, see ChoiceAfter
  curve_in,                   \* arguments of the last curve evaluation
  curve_out,                  \* its result
  curve_prev                  \* <<now, result>> of the evaluation before it

ctl_vars == <<light_, sun_, restore_mode, min_mireds_, max_mireds_,
              transition_length_, state, last_requested_color_temp_,
              previous_light_state_, remote_values, pending_values, now,
              sun_times, event, calls, taken, scenario, awaiting_reached,
              external_choice>>
curve_vars == <<curve_in, curve_out, curve_prev>>
vars == <<ctl_vars, curve_vars>>

----------------------------------------------------------------------------
(* Bounds of the model *)

\* last time of day the clock reaches
MaxNow == 4
\* number of brightness levels the light can be set to
MaxBrightness == 2

----------------------------------------------------------------------------
(* The curve: smooth_transition and calc_color_temperature *)

Abs(x) == IF x < 0 THEN -x ELSE x

\* 0.5 * (tanh(a * (x_adj - b)) + 1) in millionths, for x_adj = i / 576,
\* with a = atanh(2*y2 - 1) - atanh(2*y1 - 1), b = -atanh(2*y1 - 1) / a,
\* y1 = 0.00001 and y2 = 0.999: a = 9.209835, b = 0.625034.  The entries are
\* the values at the folded positions the model uses (i = 24*j and i = j*j,
\* j = 0..24); x_adj = 0 gives y1 and x_adj = 1 gives y2.
SigmoidPoints ==
  { <<0, 10>>, <<1, 10>>, <<4, 11>>, <<9, 13>>, <<16, 17>>, <<24, 22>>,
    <<25, 22>>, <<36, 32>>, <<48, 46>>, <<49, 48>>, <<64, 77>>, <<72, 100>>,
    <<81, 133>>, <<96, 215>>, <<100, 245>>, <<120, 464>>, <<121, 479>>,
    <<144, 999>>, <<168, 2149>>, <<169, 2219>>, <<192, 4619>>, <<196, 5246>>,
    <<216, 9897>>, <<225, 13155>>, <<240, 21082>>, <<256, 34677>>,
    <<264, 44338>>, <<288, 90868>>, <<289, 93545>>, <<312, 177177>>,
    <<324, 240151>>, <<336, 316889>>, <<360, 499845>>, <<361, 507839>>,
    <<384, 682842>>, <<400, 782198>>, <<408, 822642>>, <<432, 909029>>,
    <<441, 930192>>, <<456, 955610>>, <<480, 978893>>, <<484, 981380>>,
    <<504, 990090>>, <<528, 995376>>, <<529, 995521>>, <<552, 997848>>,
    <<576, 999000>> }

\* Sigmoid falling where it should rise
SigmoidFalling(num, den) ==
  LET i == (num * 576) \div den
  IN  1000000 - (CHOOSE p \in SigmoidPoints : p[1] = i)[2]

\* the sigmoid at x_adj = num / den, in millionths
Sigmoid(num, den) ==
  LET i == (num * 576) \div den
  IN  (CHOOSE p \in SigmoidPoints : p[1] = i)[2]

\* std::pow(std::fabs(1 - x * 2), speed) for x = k / n, as <<num, den>>
FoldPow(k, n, speed) ==
  LET f == Abs(n - 2 * k)
  IN  IF speed = 1 THEN <<f, n>> ELSE <<f * f, n * n>>

\* ScalePpm a factor of ten too small
ScalePpmTenth(r, s) ==
  LET sh == s \div 100
      sl == s % 100
      A  == r * sh
  IN  ((A \div 100) + (((A % 100) * 100 + r * sl) \div 10000)) \div 10

\* floor(r * s / 10000) without leaving 32 bits (r < 100000, s <= 1000000)
ScalePpm(r, s) ==
  LET sh == s \div 100
      sl == s % 100
      A  == r * sh
  IN  (A \div 100) + (((A % 100) * 100 + r * sl) \div 10000)

\* smooth_transition with y_min and y_max exchanged
smooth_transition_swapped(k, n, y_min, y_max, speed) ==
  LET x_adj == FoldPow(k, n, speed)
  IN  y_max * 100 - ScalePpm(y_max - y_min, Sigmoid(x_adj[1], x_adj[2]))

\* smooth_transition(x, y_min, y_max, speed) for x = k / n; y_min and y_max
\* in hundredths of a mired, the result in ten-thousandths of a mired
smooth_transition(k, n, y_min, y_max, speed) ==
  LET x_adj == FoldPow(k, n, speed)
  IN  y_min * 100 + ScalePpm(y_max - y_min, Sigmoid(x_adj[1], x_adj[2]))

\* std::roundf(mireds * 10) / 10: mireds in ten-thousandths of a mired,
\* the result in hundredths (a multiple of 10)
RoundOneDecimal(mireds) == ((mireds + 500) \div 1000) * 10

\* calc_color_temperature rounding the night value as well
calc_night_rounded(t, sunrise, sunset, min_mireds, max_mireds, speed) ==
  IF t < sunrise \/ t > sunset
    THEN RoundOneDecimal(max_mireds * 100)
    ELSE RoundOneDecimal(smooth_transition(t - sunrise, sunset - sunrise,
                                           min_mireds, max_mireds, speed))

calc_color_temperature(t, sunrise, sunset, min_mireds, max_mireds, speed) ==
  IF t < sunrise \/ t > sunset
    THEN max_mireds
    ELSE RoundOneDecimal(smooth_transition(t - sunrise, sunset - sunrise,
                                           min_mireds, max_mireds, speed))

----------------------------------------------------------------------------
(* The controller: AdaptiveLightningComponent *)

\* most light calls one entry point may perform while the light still
\* notifies synchronously
MaxCalls == 3

\* restore modes of the switch
RestoreModes == {"SWITCH_ALWAYS_ON", "SWITCH_RESTORE_DEFAULT_OFF"}

\* configurations: <<min_mireds_, max_mireds_, transition_length_>>
Ranges == { <<15300, 50000, 0>>, <<15300, 15306, 1000>> }

\* sunrise and sunset the sun component reports for today; <<>>: none
SunTimes == { <<1, 3>>, <<>> }

\* colour temperatures another agent sets on the light
ExternalColors == { 15310, 40000 }

\* how the light delivers the callbacks of a call: values inside perform()
\* or later, target reached inside perform() (no transition) or later
Deliveries == [values : BOOLEAN, reached : BOOLEAN]

\* curve steepness the component passes to calc_color_temperature
speed_ == 1

\* the component's mutable state and the light, as one value that the
\* methods below transform
Cur ==
  [state   |-> state,
   last    |-> last_requested_color_temp_,
   prev    |-> previous_light_state_,
   remote  |-> remote_values,
   pending |-> pending_values,
   calls   |-> <<>>,
   taken   |-> {}]

\* force_next_update(): forget the last requested colour temperature
force_next_update(c) == [c EXCEPT !.last = 0]

\* Switch::publish_state(state)
publish_state(c, s) == [c EXCEPT !.state = s]

\* UpdateSkipped without the check that the sun component is there
UpdateSkippedSunIgnored(c) ==
  \/ ~light_
  \/ ~c.state
  \/ ~c.remote.is_on
  \/ sun_times = <<>>

\* UpdateSkipped without the check that the light is on
UpdateSkippedLightOffIgnored(c) ==
  \/ ~light_ \/ ~sun_
  \/ ~c.state
  \/ sun_times = <<>>

\* update(): light_ == nullptr || sun_ == nullptr, !state, light off,
\* sunrise or sunset unknown
UpdateSkipped(c) ==
  \/ ~light_ \/ ~sun_
  \/ ~c.state
  \/ ~c.remote.is_on
  \/ sun_times = <<>>

\* the colour temperature update() computes
Mireds ==
  calc_color_temperature(now, sun_times[1], sun_times[2],
                         min_mireds_, max_mireds_, speed_)

\* SameAsLastRequested with the dead-band removed
SameAsLastRequestedNever(mireds, last) == FALSE

\* SameAsLastRequested with <= in place of <
SameAsLastRequestedInclusive(mireds, last) == Abs(mireds - last) <= 10

\* std::fabs(mireds - last_requested_color_temp_) < 0.1
SameAsLastRequested(mireds, last) == Abs(mireds - last) < 10

\* RecordRequested keeping whole mireds only
RecordRequestedTruncated(c, mireds) ==
  [c EXCEPT !.last = (mireds \div 100) * 100]

\* last_requested_color_temp_ = mireds
RecordRequested(c, mireds) == [c EXCEPT !.last = mireds]

\* MakeCall asking for the first brightness level
MakeCallFixedBrightness(c, mireds) ==
  [color_temperature |-> mireds,
   brightness        |-> 1,
   transition_length |-> transition_length_,
   state             |-> c.state,
   is_on             |-> c.remote.is_on,
   last              |-> c.last]

\* the call update() builds: colour temperature, the light's current
\* brightness, the transition length if one is configured; with it, what
\* the component's state is when the call is performed
MakeCall(c, mireds) ==
  [color_temperature |-> mireds,
   brightness        |-> c.remote.brightness,
   transition_length |-> transition_length_,
   state             |-> c.state,
   is_on             |-> c.remote.is_on,
   last              |-> c.last]

\* ChangedExternally without std::fabs
ChangedExternallyWhenWarmer(c) ==
  /\ c.state
  /\ c.last > 0
  /\ c.remote.color_temperature - c.last > 10

\* ChangedExternally with the comparison turned around
ChangedExternallyInverted(c) ==
  /\ c.state
  /\ c.last > 0
  /\ Abs(c.remote.color_temperature - c.last) < 10

\* state && last_requested_color_temp_ > 0 &&
\* std::fabs(current_temp - last_requested_color_temp_) > 0.1
ChangedExternally(c) ==
  /\ c.state
  /\ c.last > 0
  /\ Abs(c.remote.color_temperature - c.last) > 10

\* JustTurnedOn in every restore mode
JustTurnedOnAnyMode(c) ==
  /\ ~c.prev
  /\ ~c.state

\* JustTurnedOn without the check of previous_light_state_
JustTurnedOnNoEdge(c) ==
  /\ ~c.state
  /\ restore_mode = "SWITCH_ALWAYS_ON"

\* !previous_light_state_ && !state && restore_mode == SWITCH_ALWAYS_ON
JustTurnedOn(c) ==
  /\ ~c.prev
  /\ ~c.state
  /\ restore_mode = "SWITCH_ALWAYS_ON"

\* ForceAgain left out
ForceAgainMissing(c) == c

\* write_state()'s second force_next_update(), after update()
ForceAgain(c) == force_next_update(c)

\* StateDiffers answering yes to every write
StateDiffersAlways(c, s) == TRUE

\* write_state(): this->state != state
StateDiffers(c, s) == c.state # s

\* RememberLightState only when no branch was taken
RememberLightStateUnlessTaken(c, current_state) ==
  IF c.taken # {} THEN c ELSE [c EXCEPT !.prev = current_state]

\* previous_light_state_ = current_state
RememberLightState(c, current_state) == [c EXCEPT !.prev = current_state]

\* handle_light_state_change() takes the branch b ("override",
\* "reenable"); handle_target_state_reached() calls update() ("reached")
Take(c, b) == [c EXCEPT !.taken = @ \cup {b}]

RECURSIVE update(_, _)
RECURSIVE write_state(_, _, _)
RECURSIVE handle_light_state_change(_, _)
RECURSIVE handle_target_state_reached(_, _)
RECURSIVE perform(_, _, _)

\* call.perform(): the light takes the colour temperature and brightness of
\* the call, then runs the callbacks registered in setup()
perform(c, call, d) ==
  LET c1 == [c EXCEPT !.remote.color_temperature = call.color_temperature,
                      !.remote.brightness = call.brightness,
                      !.pending = TRUE,
                      !.calls = Append(@, call)]
      inside == Len(c1.calls) < MaxCalls
      c2 == IF d.values /\ inside
              THEN handle_light_state_change(c1, d) ELSE c1
  IN  IF d.reached /\ inside
        THEN handle_target_state_reached(c2, d) ELSE c2

update(c, d) ==
  IF UpdateSkipped(c) THEN c
  ELSE IF SameAsLastRequested(Mireds, c.last) THEN c
  ELSE LET c1 == RecordRequested(c, Mireds)
       IN  perform(c1, MakeCall(c1, Mireds), d)

write_state(c, s, d) ==
  IF StateDiffers(c, s)
    THEN ForceAgain(update(publish_state(force_next_update(c), s), d))
    ELSE c

handle_light_state_change(c, d) ==
  IF ~light_ THEN c
  ELSE LET current_state == c.remote.is_on
           c0 == [c EXCEPT !.pending = FALSE]
           c1 == IF current_state
                   THEN IF ChangedExternally(c0)
                          THEN write_state(Take(c0, "override"), FALSE, d)
                        ELSE IF JustTurnedOn(c0)
                          THEN write_state(Take(c0, "reenable"), TRUE, d)
                        ELSE c0
                   ELSE c0
       IN  RememberLightState(c1, current_state)

handle_target_state_reached(c, d) ==
  IF ~light_ THEN c
  ELSE IF c.prev /\ c.state THEN update(Take(c, "reached"), d)
  ELSE c

----------------------------------------------------------------------------
(* Entry points and environment *)

\* the name under which write_state(s) is recorded in event
WriteEvent(s) == IF s THEN "write_state(true)" ELSE "write_state(false)"

WriteEvents == { WriteEvent(TRUE), WriteEvent(FALSE) }

\* the entry points of the component, as recorded in event
ControllerEvents ==
  WriteEvents \cup {"update", "handle_light_state_change",
                    "handle_target_state_reached"}

NoScenario == [phase |-> "none", commands |-> 0]

\* History of an automatic re-enable.  It starts ("reenabled") when a light
\* notification re-enables the component while the sun component knows
\* today's sunrise and sunset; it counts the calls performed after that
\* notification, and is "reached" once a target-state-reached callback has
\* run.  A switch write and every change of the light, the time or the sun
\* times ends it.
ScenarioAfter(c, ev) ==
  IF ev = "handle_light_state_change" /\ "reenable" \in c.taken
     /\ sun_ /\ sun_times # <<>>
    THEN [phase |-> "reenabled", commands |-> 0]
  ELSE IF scenario.phase = "none" \/ ev \in WriteEvents
    THEN NoScenario
  ELSE [phase    |-> IF ev = "handle_target_state_reached"
                       THEN "reached" ELSE scenario.phase,
        commands |-> scenario.commands + Len(c.calls)]

\* History of a switch-on.  It holds from an entry point that changed the
\* component from disabled to enabled while the light was on and left
\* previous_light_state_ true, until the next target-state-reached callback
\* arrives as an entry point of its own, the component is disabled,
\* previous_light_state_ becomes false or the light goes off.
AwaitingAfter(c, ev) ==
  IF light_ /\ ~state /\ c.state /\ c.prev /\ c.remote.is_on THEN TRUE
  ELSE IF ev = "handle_target_state_reached" \/ ~c.state \/ ~c.prev
    THEN FALSE
  ELSE awaiting_reached

\* values of external_choice while the light shows another agent's colour
ExternalChoices == {"changed", "notified", "overridden"}

\* History of the light's colour temperature.  "own": the light shows the
\* colour temperature of the component's last call.  "changed": another
\* agent then moved it more than 0.1 away while the component was enabled
\* and the light on.  "overridden": the light's notification of that change
\* has run and took the override branch.  "notified": it has run and did
\* not.  A call of the component makes it "own" again; enabling the
\* component again, or the light going off, ends the other three.
ChoiceAfter(c, ev) ==
  IF c.calls # <<>> THEN "own"
  ELSE IF ~state /\ c.state /\ external_choice \in ExternalChoices
    THEN "none"
  ELSE IF external_choice = "changed" /\ ev = "handle_light_state_change"
    THEN IF "override" \in c.taken THEN "overridden" ELSE "notified"
  ELSE external_choice

\* the same history when another agent sets the colour temperature t
ChoiceAfterSet(t) ==
  IF t = remote_values.color_temperature THEN external_choice
  ELSE IF external_choice \in ExternalChoices THEN external_choice
  ELSE IF /\ external_choice = "own"
          /\ state
          /\ remote_values.is_on
          /\ Abs(t - remote_values.color_temperature) > 10
    THEN "changed"
  ELSE "none"

\* the state an entry point leaves behind
Commit(c, ev) ==
  /\ state' = c.state
  /\ last_requested_color_temp_' = c.last
  /\ previous_light_state_' = c.prev
  /\ remote_values' = c.remote
  /\ pending_values' = c.pending
  /\ calls' = c.calls
  /\ taken' = c.taken
  /\ scenario' = ScenarioAfter(c, ev)
  /\ awaiting_reached' = AwaitingAfter(c, ev)
  /\ external_choice' = ChoiceAfter(c, ev)
  /\ event' = ev
  /\ UNCHANGED <<light_, sun_, restore_mode, min_mireds_, max_mireds_,
                 transition_length_, now, sun_times, curve_vars>>

\* PollingComponent calls update()
Tick ==
  \E d \in Deliveries : Commit(update(Cur, d), "update")

\* the switch is turned on or off: write_state(s)
SwitchWrite ==
  \E s \in BOOLEAN, d \in Deliveries :
    Commit(write_state(Cur, s, d), WriteEvent(s))

\* the light's remote-values callback
ValuesChanged ==
  /\ light_
  /\ \E d \in Deliveries :
       Commit(handle_light_state_change(Cur, d), "handle_light_state_change")

\* the light's target-state-reached callback
TargetReached ==
  /\ light_
  /\ \E d \in Deliveries :
       Commit(handle_target_state_reached(Cur, d),
              "handle_target_state_reached")

\* another agent turns the light on or off
LightTurn ==
  /\ light_
  /\ remote_values' = [remote_values EXCEPT !.is_on = ~@]
  /\ pending_values' = TRUE
  /\ event' = "light_turn"
  /\ calls' = <<>>
  /\ taken' = {}
  /\ scenario' = NoScenario
  /\ awaiting_reached' = FALSE
  /\ external_choice' = "none"
  /\ UNCHANGED <<light_, sun_, restore_mode, min_mireds_, max_mireds_,
                 transition_length_, state, last_requested_color_temp_,
                 previous_light_state_, now, sun_times, curve_vars>>

\* another agent sets the light's colour temperature or brightness
LightSet ==
  /\ light_
  /\ \E t \in ExternalColors \cup {remote_values.color_temperature},
        b \in 1..MaxBrightness :
       /\ <<t, b>> # <<remote_values.color_temperature,
                       remote_values.brightness>>
       /\ remote_values' = [remote_values EXCEPT !.color_temperature = t,
                                                 !.brightness = b]
       /\ external_choice' = ChoiceAfterSet(t)
  /\ pending_values' = TRUE
  /\ event' = "light_set"
  /\ calls' = <<>>
  /\ taken' = {}
  /\ scenario' = NoScenario
  /\ UNCHANGED awaiting_reached
  /\ UNCHANGED <<light_, sun_, restore_mode, min_mireds_, max_mireds_,
                 transition_length_, state, last_requested_color_temp_,
                 previous_light_state_, now, sun_times, curve_vars>>

\* time passes
AdvanceTime ==
  /\ now < MaxNow
  /\ now' = now + 1
  /\ event' = "time"
  /\ calls' = <<>>
  /\ taken' = {}
  /\ scenario' = NoScenario
  /\ UNCHANGED <<awaiting_reached, external_choice>>
  /\ UNCHANGED <<light_, sun_, restore_mode, min_mireds_, max_mireds_,
                 transition_length_, state, last_requested_color_temp_,
                 previous_light_state_, remote_values, pending_values,
                 sun_times, curve_vars>>

\* a new day starts: other sunrise and sunset, or none
NewDay ==
  /\ now = MaxNow
  /\ now' = 0
  /\ sun_times' \in SunTimes
  /\ event' = "time"
  /\ calls' = <<>>
  /\ taken' = {}
  /\ scenario' = NoScenario
  /\ UNCHANGED <<awaiting_reached, external_choice>>
  /\ UNCHANGED <<light_, sun_, restore_mode, min_mireds_, max_mireds_,
                 transition_length_, state, last_requested_color_temp_,
                 previous_light_state_, remote_values, pending_values,
                 curve_vars>>

\* the curve specification's variables, at rest
CurveIdle ==
  /\ curve_in = <<>>
  /\ curve_out = <<>>
  /\ curve_prev = <<>>

\* after construction and setup()
Init ==
  /\ \E p \in {<<TRUE, TRUE>>, <<FALSE, TRUE>>, <<TRUE, FALSE>>} :
       light_ = p[1] /\ sun_ = p[2]
  /\ restore_mode \in RestoreModes
  /\ \E r \in Ranges :
       min_mireds_ = r[1] /\ max_mireds_ = r[2] /\ transition_length_ = r[3]
  /\ state = (restore_mode = "SWITCH_ALWAYS_ON")
  /\ last_requested_color_temp_ = 0
  /\ previous_light_state_ = FALSE
  /\ remote_values \in [is_on : BOOLEAN,
                        color_temperature : {40000},
                        brightness : {1}]
  /\ pending_values = FALSE
  /\ now = 0
  /\ sun_times \in SunTimes
  /\ event = "setup"
  /\ calls = <<>>
  /\ taken = {}
  /\ scenario = NoScenario
  /\ awaiting_reached = FALSE
  /\ external_choice = "none"
  /\ CurveIdle

Next ==
  \/ Tick
  \/ SwitchWrite
  \/ ValuesChanged
  \/ TargetReached
  \/ LightTurn
  \/ LightSet
  \/ AdvanceTime
  \/ NewDay

Spec == Init /\ [][Next]_vars

----------------------------------------------------------------------------
(* The curve on its own: calc_color_temperature applied to drawn inputs *)

\* how far before sunrise and after sunset the curve is evaluated
CurveMargin == 1

\* <<sunrise, sunset>>
CurveWindows == { <<12, 36>>, <<14, 30>>, <<1, 5>>, <<2, 5>> }

\* <<min_mireds, max_mireds>>
CurveRanges ==
  { <<15300, 50000>>, <<15384, 37037>>, <<14000, 50000>>,
    <<15304, 50006>>, <<20000, 20000>> }

CurveSpeeds == { 1, 2 }

\* the component at rest while the curve is evaluated
CtlIdle ==
  /\ light_ = FALSE
  /\ sun_ = FALSE
  /\ restore_mode = "SWITCH_RESTORE_DEFAULT_OFF"
  /\ min_mireds_ = 0
  /\ max_mireds_ = 0
  /\ transition_length_ = 0
  /\ state = FALSE
  /\ last_requested_color_temp_ = 0
  /\ previous_light_state_ = FALSE
  /\ remote_values = [is_on |-> FALSE, color_temperature |-> 0,
                      brightness |-> 0]
  /\ pending_values = FALSE
  /\ now = 0
  /\ sun_times = <<>>
  /\ event = "setup"
  /\ calls = <<>>
  /\ taken = {}
  /\ scenario = [phase |-> "none", commands |-> 0]
  /\ awaiting_reached = FALSE
  /\ external_choice = "none"

InitCurve ==
  /\ CtlIdle
  /\ \E w \in CurveWindows, r \in CurveRanges, sp \in CurveSpeeds :
       curve_in = [now |-> w[1], sunrise |-> w[1], sunset |-> w[2],
                   min_mireds |-> r[1], max_mireds |-> r[2], speed |-> sp]
  /\ curve_out = <<>>
  /\ curve_prev = <<>>

\* one evaluation of calc_color_temperature at time t, the other arguments
\* kept
CalcColorTemperature ==
  \E t \in (curve_in.sunrise - CurveMargin)..(curve_in.sunset + CurveMargin) :
    /\ curve_in' = [curve_in EXCEPT !.now = t]
    /\ curve_out' = <<calc_color_temperature(t, curve_in.sunrise,
                        curve_in.sunset, curve_in.min_mireds,
                        curve_in.max_mireds, curve_in.speed)>>
    /\ curve_prev' = IF curve_out = <<>> THEN <<>>
                     ELSE <<curve_in.now, curve_out[1]>>
    /\ UNCHANGED ctl_vars

NextCurve == CalcColorTemperature

SpecCurve == InitCurve /\ [][NextCurve]_vars

----------------------------------------------------------------------------
(* Properties of the controller, checked under Spec *)

\* C1 (anti-echo): when update(), run by a periodic tick, performs a call,
\* the light's report of the commanded colour temperature never takes the
\* self-disable branch and the component stays enabled, whether the report
\* arrives inside call.perform() or as the very next notification.
C1_AntiEcho ==
  [][ /\ (event' = "update" /\ calls' # <<>>)
           => (state' /\ "override" \notin taken')
      /\ (event = "update" /\ calls # <<>>
          /\ event' = "handle_light_state_change")
           => (state' /\ "override" \notin taken') ]_vars

\* a tick performed a call, the light reported it inside perform(), and the
\* component is still enabled
C1_Witness ==
  /\ event = "update"
  /\ Len(calls) = 1
  /\ ~pending_values
  /\ previous_light_state_
  /\ remote_values.color_temperature = calls[1].color_temperature
  /\ state

\* C2 (external override): a light notification that finds the component
\* enabled, the light on, a colour temperature requested (> 0) and the
\* light's colour temperature more than 0.1 away from it ends with the
\* component disabled.
C2_ExternalOverride ==
  [][ ( /\ event' = "handle_light_state_change"
        /\ state
        /\ remote_values.is_on
        /\ last_requested_color_temp_ > 0
        /\ Abs(remote_values.color_temperature
               - last_requested_color_temp_) > 10 )
      => ~state' ]_vars

\* a notification took the override branch for a colour another agent set,
\* and the component is disabled
C2_Witness ==
  /\ event = "handle_light_state_change"
  /\ "override" \in taken
  /\ remote_values.color_temperature \in ExternalColors
  /\ remote_values.is_on
  /\ ~state

\* C3: every call is performed with the component enabled and the light
\* on; a tick with the light off or the component disabled performs no call
\* and leaves last_requested_color_temp_ alone.
C3_CommandOnlyWhenEnabledAndOn ==
  [][ /\ \A i \in DOMAIN calls' : calls'[i].state /\ calls'[i].is_on
      /\ (event' = "update" /\ (~state \/ ~remote_values.is_on))
           => ( /\ calls' = <<>>
                /\ last_requested_color_temp_' = last_requested_color_temp_ )
    ]_vars

\* a tick ran with the light off while everything else allowed a call
C3_Witness ==
  /\ event = "update"
  /\ light_ /\ sun_ /\ sun_times # <<>>
  /\ state
  /\ ~remote_values.is_on
  /\ last_requested_color_temp_ = 0
  /\ calls = <<>>

C5_DeadBand ==
  [][ (event' = "update" /\ ~UpdateSkipped(Cur))
      => IF Abs(Mireds - last_requested_color_temp_) < 10
           THEN /\ calls' = <<>>
                /\ last_requested_color_temp_' = last_requested_color_temp_
           ELSE /\ Len(calls') = 1
                /\ calls'[1].color_temperature = Mireds
                /\ calls'[1].last = Mireds
                /\ last_requested_color_temp_' = Mireds ]_vars

\* a tick skipped a target that differs from the last request by less than
\* 0.1 without being equal to it
C5_Witness ==
  /\ event = "update"
  /\ ~UpdateSkipped(Cur)
  /\ calls = <<>>
  /\ Mireds # last_requested_color_temp_
  /\ Abs(Mireds - last_requested_color_temp_) < 10

\* C11 (forced re-evaluation after enabling): once an entry point has
\* changed the component from disabled to enabled with the light on, the
\* next target-state-reached callback that finds the component enabled,
\* previous_light_state_ true, the light on and today's sunrise and sunset
\* known performs a call.
C11_ReachedAfterEnableCommands ==
  [][ ( /\ awaiting_reached
        /\ event' = "handle_target_state_reached"
        /\ light_ /\ sun_ /\ sun_times # <<>>
        /\ state
        /\ previous_light_state_
        /\ remote_values.is_on )
      => calls' # <<>> ]_vars

\* C12 (feedback-loop termination): no entry point performs more than two
\* calls, whatever callbacks the light runs inside call.perform(); the chain
\* of nested callbacks ends by itself, below the model's cut at MaxCalls.
C12_AtMostTwoCalls == Len(calls) <= 2

\* a tick performed a call, the light ran both callbacks inside perform(),
\* the nested target-state-reached callback called update() again, and that
\* update() performed no second call
C12_Witness ==
  /\ event = "update"
  /\ Len(calls) = 1
  /\ ~pending_values
  /\ "reached" \in taken

\* C13 (auto re-enable only on an off-to-on edge): a light notification
\* enables a disabled component only when it finds the light on,
\* previous_light_state_ false and the restore mode SWITCH_ALWAYS_ON, and
\* never when it took the override branch; a notification that finds the
\* light off, previous_light_state_ true or another restore mode leaves a
\* disabled component disabled.
C13_ReenableOnlyOnEdge ==
  [][ event' = "handle_light_state_change" =>
        /\ (~state /\ state')
             => /\ remote_values.is_on
                /\ ~previous_light_state_
                /\ restore_mode = "SWITCH_ALWAYS_ON"
                /\ "override" \notin taken'
        /\ ( /\ ~state
             /\ \/ ~remote_values.is_on
                \/ previous_light_state_
                \/ restore_mode # "SWITCH_ALWAYS_ON" )
             => ~state'
        /\ ~("override" \in taken' /\ "reenable" \in taken') ]_vars

\* a notification saw the light come on and enabled the component
C13_Witness ==
  /\ event = "handle_light_state_change"
  /\ taken = {"reenable"}
  /\ restore_mode = "SWITCH_ALWAYS_ON"
  /\ remote_values.is_on
  /\ state

\* C14 (previous_light_state_ tracking): a light notification ends with
\* previous_light_state_ equal to the light's on/off state it observed, on
\* every path; the re-enable branch is taken only when previous_light_state_
\* was false before the notification; and after an entry point whose call
\* was reported by a notification nested in call.perform(),
\* previous_light_state_ equals the light's on/off state as well.
C14_PreviousTracksLight ==
  [][ /\ event' = "handle_light_state_change"
           => /\ previous_light_state_' = remote_values.is_on
              /\ "reenable" \in taken' => ~previous_light_state_
      /\ ( /\ event' \in ControllerEvents
           /\ calls' # <<>>
           /\ ~pending_values' )
           => previous_light_state_' = remote_values'.is_on ]_vars

\* a notification took the re-enable branch, the call of write_state(true)
\* was reported by a notification nested in perform(), and
\* previous_light_state_ is true
C14_Witness ==
  /\ event = "handle_light_state_change"
  /\ "reenable" \in taken
  /\ calls # <<>>
  /\ ~pending_values
  /\ previous_light_state_

\* C15 (write_state frame): write_state(s) with s equal to the component's
\* state changes nothing and performs no call; with s different, the
\* component's state is s afterwards and a call is performed only if s is
\* true.
C15_WriteStateFrame ==
  [][ \A s \in BOOLEAN :
        event' = WriteEvent(s) =>
          IF s = state
            THEN /\ calls' = <<>>
                 /\ UNCHANGED <<state, last_requested_color_temp_,
                                previous_light_state_, remote_values,
                                pending_values>>
            ELSE /\ state' = s
                 /\ calls' # <<>> => s ]_vars

\* write_state(true) on an enabled component did nothing, although update()
\* would have performed a call
C15_Witness ==
  /\ event = WriteEvent(TRUE)
  /\ calls = <<>>
  /\ light_ /\ sun_ /\ sun_times # <<>>
  /\ state
  /\ remote_values.is_on
  /\ last_requested_color_temp_ > 0
  /\ ~SameAsLastRequested(Mireds, last_requested_color_temp_)

\* C16 (degraded no-op): a tick with the light or the sun component absent,
\* or with today's sunrise or sunset unknown, performs no call and leaves
\* state, last_requested_color_temp_ and previous_light_state_ unchanged;
\* nothing of this is remembered: every tick that finds both components,
\* sunrise and sunset known, the component enabled, the light on and the
\* target outside the dead-band performs a call.
C16_DegradedNoOp ==
  [][ event' = "update" =>
        /\ (~light_ \/ ~sun_ \/ sun_times = <<>>)
             => /\ calls' = <<>>
                /\ UNCHANGED <<state, last_requested_color_temp_,
                               previous_light_state_>>
        /\ ( /\ light_ /\ sun_ /\ sun_times # <<>>
             /\ state
             /\ remote_values.is_on
             /\ ~SameAsLastRequested(Mireds, last_requested_color_temp_) )
             => calls' # <<>> ]_vars

\* a tick of an enabled component with the light on was skipped because
\* sunrise and sunset are unknown
C16_Witness ==
  /\ event = "update"
  /\ light_ /\ sun_
  /\ sun_times = <<>>
  /\ state
  /\ remote_values.is_on
  /\ calls = <<>>

\* C17 (brightness and power pass-through): an entry point of the component
\* leaves the light's brightness and on/off state as they were; every call
\* it performs carries the light's brightness and the configured transition
\* length.
C17_BrightnessAndPowerKept ==
  [][ event' \in ControllerEvents =>
        /\ remote_values'.brightness = remote_values.brightness
        /\ remote_values'.is_on = remote_values.is_on
        /\ \A i \in 1..Len(calls') :
             /\ calls'[i].brightness = remote_values.brightness
             /\ calls'[i].transition_length = transition_length_ ]_vars

\* a tick performed a call while the light was at its second brightness
\* level, and the light still is
C17_Witness ==
  /\ event = "update"
  /\ Len(calls) = 1
  /\ calls[1].brightness = 2
  /\ remote_values.brightness = 2
  /\ remote_values.color_temperature = calls[1].color_temperature

\* C18 (no overwrite of an external colour): once another agent has moved
\* the light's colour temperature more than 0.1 away from the component's
\* last call while the component was enabled and the light on, the
\* notification of that change performs no call, and after it no entry point
\* performs a call unless it changes the component from disabled to enabled.
C18_NoCallAfterExternalChoice ==
  [][ ( /\ \/ external_choice \in {"notified", "overridden"}
           \/ /\ external_choice = "changed"
              /\ event' = "handle_light_state_change"
        /\ remote_values'.is_on
        /\ ~(~state /\ state') )
      => calls' = <<>> ]_vars

\* C19 (self-disable is stable while the light stays on): a notification
\* that takes the override branch leaves the component disabled and
\* previous_light_state_ true; while the light stays on, a disabled component
\* with previous_light_state_ true keeps previous_light_state_ true and is
\* enabled by write_state(true) from the switch only; and whenever a
\* disabled component becomes enabled, it is by write_state(true) from the
\* switch or by a notification that takes the re-enable branch, having found
\* previous_light_state_ false under SWITCH_ALWAYS_ON.
C19_DisabledStaysDisabled ==
  [][ /\ (event' = "handle_light_state_change" /\ "override" \in taken')
           => (~state' /\ previous_light_state_')
      /\ ( /\ ~state
           /\ previous_light_state_
           /\ remote_values.is_on
           /\ remote_values'.is_on )
           => /\ previous_light_state_'
              /\ state' => event' = WriteEvent(TRUE)
      /\ (~state /\ state')
           => \/ event' = WriteEvent(TRUE)
              \/ /\ event' = "handle_light_state_change"
                 /\ "reenable" \in taken'
                 /\ ~previous_light_state_
                 /\ restore_mode = "SWITCH_ALWAYS_ON" ]_vars

\* after a notification took the override branch and disabled the
\* component, a tick came with the light still on, and the component is
\* still disabled
C19_Witness ==
  /\ event = "update"
  /\ external_choice = "overridden"
  /\ restore_mode = "SWITCH_ALWAYS_ON"
  /\ ~state
  /\ previous_light_state_
  /\ remote_values.is_on
  /\ ~pending_values

\* C20 (tracking): when no notification of the light is outstanding, the
\* component is enabled, the light is on and a colour temperature is
\* recorded as last requested, the light's colour temperature is within 0.1
\* of it.
C20_LightTracksLastRequested ==
  ( /\ light_
    /\ ~pending_values
    /\ state
    /\ remote_values.is_on
    /\ last_requested_color_temp_ > 0 )
  => Abs(remote_values.color_temperature - last_requested_color_temp_) <= 10

\* all notifications delivered, the component enabled, and the light's
\* colour temperature off the last request by a change of another agent that
\* stayed within 0.1
C20_Witness ==
  /\ light_
  /\ ~pending_values
  /\ state
  /\ remote_values.is_on
  /\ last_requested_color_temp_ > 0
  /\ remote_values.color_temperature # last_requested_color_temp_

----------------------------------------------------------------------------
(* Properties of the curve, checked under SpecCurve *)

Evaluated == curve_out # <<>>

\* the evaluation was at position 0.5: now = (sunrise + sunset) / 2
AtMidpoint ==
  2 * (curve_in.now - curve_in.sunrise) = curve_in.sunset - curve_in.sunrise

CurveRange == curve_in.max_mireds - curve_in.min_mireds

\* C6 (night value): for now < sunrise or now > sunset the result is
\* max_mireds itself, not rounded.
C6_NightValue ==
  (Evaluated /\ (curve_in.now < curve_in.sunrise
                 \/ curve_in.now > curve_in.sunset))
    => curve_out[1] = curve_in.max_mireds

\* an evaluation after sunset with a max_mireds that rounding would change
C6_Witness ==
  /\ Evaluated
  /\ curve_in.now > curve_in.sunset
  /\ curve_in.max_mireds % 10 # 0
  /\ curve_out[1] = curve_in.max_mireds

\* C7 as claimed: at the midpoint of the day the result is
\* (min_mireds + max_mireds) / 2.
C7_MidpointIsMean ==
  (Evaluated /\ AtMidpoint)
    => 2 * curve_out[1] = curve_in.min_mireds + curve_in.max_mireds

\* C7 (midpoint), amended: at the midpoint of the day the result is within
\* 0.1 of min_mireds.
C7_MidpointIsMin ==
  (Evaluated /\ AtMidpoint)
    => Abs(curve_out[1] - curve_in.min_mireds) < 10

\* an evaluation at the midpoint of a range that is not empty
C7_Witness ==
  /\ Evaluated
  /\ AtMidpoint
  /\ CurveRange > 10000
  /\ curve_out[1] < curve_in.min_mireds + 10

\* C8 as claimed: at sunrise the result is within 0.01% of the range of
\* min_mireds, at sunset within 0.1% of the range of max_mireds.
C8_SunriseMinSunsetMax ==
  Evaluated =>
    /\ curve_in.now = curve_in.sunrise
         => 10000 * Abs(curve_out[1] - curve_in.min_mireds) <= CurveRange
    /\ curve_in.now = curve_in.sunset
         => 1000 * Abs(curve_in.max_mireds - curve_out[1]) <= CurveRange

\* C8 (endpoints), amended: at sunrise and at sunset alike the result is
\* within 0.1% of the range, plus the 0.05 the rounding can add, of
\* max_mireds.
C8_EndpointsNearMax ==
  (Evaluated /\ curve_in.now \in {curve_in.sunrise, curve_in.sunset})
    => 1000 * Abs(curve_in.max_mireds - curve_out[1]) <= CurveRange + 5000

\* an evaluation at sunrise, far from min_mireds
C8_Witness ==
  /\ Evaluated
  /\ curve_in.now = curve_in.sunrise
  /\ CurveRange > 10000
  /\ 2 * curve_out[1] > curve_in.min_mireds + curve_in.max_mireds

\* C9 as claimed: strictly between sunrise and sunset the result, rounded
\* to one decimal place, is within [min_mireds, max_mireds].
C9_WithinRange ==
  (Evaluated /\ curve_in.sunrise < curve_in.now
             /\ curve_in.now < curve_in.sunset)
    => /\ curve_in.min_mireds <= curve_out[1]
       /\ curve_out[1] <= curve_in.max_mireds

\* twice the distance of time t from solar noon, (sunrise + sunset) / 2
NoonDistance(t) == Abs(2 * t - (curve_in.sunrise + curve_in.sunset))

InDaylight(t) == curve_in.sunrise <= t /\ t <= curve_in.sunset

====
